---- MODULE Spec2Model ----
(***************************************************************************)
(* Model of the kluvs book-club bot: the backend API client                *)
(* (api/bookclub_api.py), the session commands (cogs/session_commands.py), *)
(* the ask command (cogs/brains_commands.py), the tutoring service         *)
(* (services/brains_service.py) and the reminder task                      *)
(* (utils/schedulers.py), run on one asyncio event loop, and the message   *)
(* and member handlers (events/message_handler.py), whose source is not    *)
(* among the files and which follow section 4.10 of the design document.   *)
(*                                                                         *)
(* Python values are modelled as follows.                                  *)
(*   - A dict is a function from key strings to string values; a nested    *)
(*     key is written with dots ("active_session.book.title"), a key that  *)
(*     holds a non-empty object holds Obj and a null valued key "null".    *)
(*   - An f-string is the sequence of its literal and interpolated parts.  *)
(*   - An exception is a record [cls, status, text, msg].                  *)
(*   - The texts of replies and embeds are written without their emoji     *)
(*     prefixes; an embed's footer is not modelled.                        *)
(***************************************************************************)
EXTENDS Integers, Sequences, FiniteSets, TLC

VARIABLES
    apiCall,    \* the last client operation a direct caller completed
    backend,    \* the clubs the remote backend holds for the guild
    inv,        \* the command invocations, by slot
    loop,       \* the invocation whose synchronous call holds the event loop thread (0: none)
    reminder,   \* the reminder task: its last firing and the messages that firing posted
    shared,     \* the objects built at startup: the backend client and the tutoring service
    unit        \* the last call of a part of the bot made on its own: its input and result

vars == <<apiCall, backend, inv, loop, reminder, shared, unit>>

cmdVars == <<backend, inv, loop, reminder, unit>>

----------------------------------------------------------------------------
(* Python helpers *)

Range(s) == {s[i] : i \in DOMAIN s}

EmptyDict == [k \in {} |-> ""]

\* truthiness of a string assembled from parts: non-empty
TruthyStr(parts) == \E i \in DOMAIN parts : parts[i] # ""

Digit == <<"0", "1", "2", "3", "4", "5", "6", "7", "8", "9">>

RECURSIVE str(_)
\* str(n) of a non-negative int
str(n) == IF n < 10 THEN Digit[n + 1] ELSE str(n \div 10) \o Digit[(n % 10) + 1]

\* str.capitalize() on the resource type names the client uses
capitalize(s) ==
    CASE s = "server"  -> "Server"
      [] s = "servers" -> "Servers"
      [] s = "club"    -> "Club"
      [] s = "member"  -> "Member"
      [] s = "session" -> "Session"
      [] OTHER         -> s

----------------------------------------------------------------------------
(* Exceptions *)

NoExc == [cls |-> "", status |-> 0, text |-> "", msg |-> << >>]

Exc(cls, msg) == [cls |-> cls, status |-> 0, text |-> "", msg |-> msg]

\* the class hierarchy of the client's errors
APIError(msg) == Exc("APIError", msg)
ResourceNotFoundError(msg) == Exc("ResourceNotFoundError", msg)
ValidationError(msg) == Exc("ValidationError", msg)
AuthenticationError(msg) == Exc("AuthenticationError", msg)

ApiErrorClasses ==
    {"APIError", "ResourceNotFoundError", "ValidationError", "AuthenticationError"}

\* a faulty variant of the class statements: `class ValidationError(Exception)`
Base_ValidationError_Exception(c) ==
    CASE c \in {"ResourceNotFoundError", "AuthenticationError"} -> "APIError"
      [] c = "Exception" -> "object"
      [] OTHER -> "Exception"

\* the base named by each class statement; the classes of other modules are taken
\* with their chain of bases shortened to Exception
Base(c) ==
    CASE c \in {"ResourceNotFoundError", "ValidationError", "AuthenticationError"} -> "APIError"
      [] c = "Exception" -> "object"
      [] OTHER -> "Exception"

RECURSIVE issubclass(_, _)
issubclass(c, k) ==
    IF c = k THEN TRUE
    ELSE IF c = "object" THEN FALSE
    ELSE issubclass(Base(c), k)

\* isinstance(e, k): what a handler `except k` catches
isinstance(e, k) == issubclass(e.cls, k)

\* isinstance(e, APIError)
IsAPIError(e) == isinstance(e, "APIError")

\* requests.exceptions: what `except requests.exceptions.RequestException` catches
RequestExceptionClasses ==
    {"HTTPError", "ConnectionError", "ConnectTimeout", "ReadTimeout",
     "TooManyRedirects", "JSONDecodeError"}

\* a faulty variant: `except requests.exceptions.HTTPError`, which lets every
\* transport exception pass the except clause
IsRequestException_HTTPErrorOnly(e) == e.cls = "HTTPError"

IsRequestException(e) == e.cls \in RequestExceptionClasses

IsHTTPError(e) == e.cls = "HTTPError"

\* ConnectTimeout derives from ConnectionError (and Timeout), ReadTimeout from Timeout only
IsConnectionError(e) == e.cls \in {"ConnectionError", "ConnectTimeout"}

----------------------------------------------------------------------------
(* Outcomes of a call: a returned Python value or a raised exception *)

PyDict(d) == [type |-> "dict", dict |-> d, list |-> ""]
PyList(l) == [type |-> "list", dict |-> EmptyDict, list |-> l]
PyNone == [type |-> "None", dict |-> EmptyDict, list |-> ""]

Return(v) == [kind |-> "return", value |-> v, exc |-> NoExc]
Raise(e) == [kind |-> "raise", value |-> PyNone, exc |-> e]

Returned(o) == o.kind = "return"
Raised(o) == o.kind = "raise"

----------------------------------------------------------------------------
(* The HTTP exchange: what the `requests` call and the backend produce *)

Obj == "{...}"

Falsy == {"null", "", "[]", "{}", "0", "false"}

\* dict.get(key) / `not value`
IsTruthy(d, k) == k \in DOMAIN d /\ d[k] \notin Falsy

GuildIds == {"7"}
ChannelIds == {"1", "2"}
ClubIds == {"club-1", "club-2", ""}
SessionIds == {"session-1", ""}
SessionKinds == {"active", "idle", "nobook"}

MaxMemberId == 1
MemberIds == 0 .. MaxMemberId

BookTitle(c) == IF c = "club-1" THEN "Dune" ELSE "Emma"

\* the JSON document the backend keeps for a club
ClubDoc(c, ch, s) ==
    [k \in {"id", "name", "server_id", "discord_channel"} |->
        CASE k = "id" -> c
          [] k = "name" -> "Club " \o c
          [] k = "server_id" -> "7"
          [] OTHER -> ch]
    @@ (CASE s = "idle" -> [k \in {"active_session"} |-> "null"]
          [] s = "nobook" ->
                [k \in {"active_session", "active_session.due_date"} |->
                    IF k = "active_session" THEN Obj ELSE "2025-05-01"]
          [] OTHER ->
                [k \in {"active_session", "active_session.due_date", "active_session.book",
                        "active_session.book.title", "active_session.book.author",
                        "active_session.discussions"} |->
                    CASE k = "active_session.due_date" -> "2025-05-01"
                      [] k = "active_session.book.title" -> BookTitle(c)
                      [] k = "active_session.book.author" -> "Author of " \o BookTitle(c)
                      [] k = "active_session.discussions" ->
                            IF c = "club-1" THEN "[d20,d15]" ELSE "[]"
                      [] OTHER -> Obj])

ClubText(c, ch, s) == "{club " \o c \o " " \o ch \o " " \o s \o "}"

\* <<response text, the document it encodes>>
JsonDocs ==
    {<<ClubText(c, ch, s), ClubDoc(c, ch, s)>> :
        c \in ClubIds \ {""}, ch \in ChannelIds, s \in SessionKinds}
    \cup {<<"{success}", [k \in {"success", "message"} |-> IF k = "success" THEN "true" ELSE "ok"]>>,
          <<"{server clubs}", [k \in {"id", "name", "clubs"} |->
                CASE k = "id" -> "7" [] k = "name" -> "Guild" [] OTHER -> "[club-1,club-2]"]>>,
          <<"{server}", [k \in {"id", "name"} |-> IF k = "id" THEN "7" ELSE "Guild"]>>,
          <<"{error}", [k \in {"error"} |-> "rejected"]>>,
          <<"{}", EmptyDict>>}

JsonTexts == {p[1] : p \in JsonDocs}

\* bodies that are not JSON
PlainTexts == {"", "Not found"}

Statuses == {200, 204, 304, 400, 401, 403, 404, 409, 500}

\* the exception classes `requests` raises before any response arrives
TransportExceptions == {"ConnectionError", "ConnectTimeout", "ReadTimeout", "TooManyRedirects"}
TransportMessages == {"Connection refused", "timed out"}

Response(status, text) ==
    [kind |-> "response", status |-> status, text |-> text, cls |-> "", msg |-> ""]
TransportFailure(cls, msg) ==
    [kind |-> "exception", status |-> 0, text |-> "", cls |-> cls, msg |-> msg]
NoExchange == [kind |-> "none", status |-> 0, text |-> "", cls |-> "", msg |-> ""]

\* every exchange the network and the backend can produce for one request
Exchanges ==
    {Response(st, t) : st \in Statuses, t \in {"{success}", "{server clubs}", "{server}",
                                              "{error}", "{}", "", "Not found",
                                              ClubText("club-1", "1", "active")}}
    \cup {TransportFailure(c, m) : c \in TransportExceptions, m \in TransportMessages}

\* requests.Response.raise_for_status(): HTTPError for 4xx and 5xx, nothing otherwise
raise_for_status(x) == 400 <= x.status /\ x.status < 600

\* requests.Response.json(): the parsed body, or JSONDecodeError (a RequestException)
json(x) ==
    IF x.text \in JsonTexts
    THEN Return(PyDict((CHOOSE p \in JsonDocs : p[1] = x.text)[2]))
    ELSE Raise([cls |-> "JSONDecodeError", status |-> 0, text |-> "",
                msg |-> <<"Expecting value">>])

\* a faulty variant of the try block: response.raise_for_status() left out
SendAndParse_unchecked(x) ==
    IF x.kind = "exception"
    THEN Raise([cls |-> x.cls, status |-> 0, text |-> "", msg |-> <<x.msg>>])
    ELSE json(x)

\* the body of every operation's try block:
\*   response = requests.<verb>(...); response.raise_for_status(); return response.json()
SendAndParse(x) ==
    IF x.kind = "exception"
    THEN Raise([cls |-> x.cls, status |-> 0, text |-> "", msg |-> <<x.msg>>])
    ELSE IF raise_for_status(x)
    THEN Raise([cls |-> "HTTPError", status |-> x.status, text |-> x.text,
                msg |-> <<str(x.status), " Error">>])
    ELSE json(x)

----------------------------------------------------------------------------
(* BookClubAPI *)

\* str.rstrip('/') of a URL written as the sequence of its parts
RECURSIVE rstrip(_)
rstrip(parts) ==
    IF parts # << >> /\ parts[Len(parts)] = "/"
    THEN rstrip(SubSeq(parts, 1, Len(parts) - 1))
    ELSE parts

\* BookClubAPI.__init__: the fields of the client
BookClubAPI(base_url, api_key) ==
    [base_url |-> rstrip(base_url),
     api_key |-> <<api_key>>,
     functions_url |-> rstrip(base_url) \o <<"/functions/v1">>,
     headers |-> [h \in {"Content-Type", "Authorization"} |->
                    IF h = "Content-Type" THEN <<"application/json">>
                    ELSE <<"Bearer ", api_key>>]]

\* the client after one of its methods has run: each method reads self.functions_url
\* and self.headers for its request and assigns to no field
BookClubAPIAfterCall(self) == self

\* a method of the shared client is called
ClientCalled == shared' = [shared EXCEPT !.api = BookClubAPIAfterCall(shared.api)]

NoId == << >>

\* a faulty variant of _handle_request_error: `elif status_code == 401`, which leaves
\* 403 to the generic branch
_handle_request_error_401_only(error, resource_type, resource_id) ==
    IF IsHTTPError(error)
    THEN LET status_code == error.status
             error_text == error.text
         IN  IF status_code = 404
             THEN LET id_info == IF TruthyStr(resource_id)
                                 THEN <<" with ID '">> \o resource_id \o <<"'">>
                                 ELSE << >>
                  IN  Raise(ResourceNotFoundError(
                          <<capitalize(resource_type)>> \o id_info
                          \o <<" not found. ", "Check if it exists in this environment.">>))
             ELSE IF status_code = 400
             THEN Raise(ValidationError(<<"Invalid request: ", error_text>>))
             ELSE IF status_code = 401
             THEN Raise(AuthenticationError(<<"Authentication error: ", error_text>>))
             ELSE Raise(APIError(<<"API error (", str(status_code), "): ", error_text>>))
    ELSE IF IsConnectionError(error)
    THEN Raise(APIError(<<"Connection error: Could not connect to the API. ",
                          "Check if the server is running and the URL is correct.">>))
    ELSE Raise(APIError(<<"Request failed: ">> \o error.msg))

\* BookClubAPI._handle_request_error
_handle_request_error(error, resource_type, resource_id) ==
    IF IsHTTPError(error)
    THEN LET status_code == error.status
             error_text == error.text
         IN  IF status_code = 404
             THEN LET id_info == IF TruthyStr(resource_id)
                                 THEN <<" with ID '">> \o resource_id \o <<"'">>
                                 ELSE << >>
                  IN  Raise(ResourceNotFoundError(
                          <<capitalize(resource_type)>> \o id_info
                          \o <<" not found. ", "Check if it exists in this environment.">>))
             ELSE IF status_code = 400
             THEN Raise(ValidationError(<<"Invalid request: ", error_text>>))
             ELSE IF status_code \in {401, 403}
             THEN Raise(AuthenticationError(<<"Authentication error: ", error_text>>))
             ELSE Raise(APIError(<<"API error (", str(status_code), "): ", error_text>>))
    ELSE IF IsConnectionError(error)
    THEN Raise(APIError(<<"Connection error: Could not connect to the API. ",
                          "Check if the server is running and the URL is correct.">>))
    ELSE Raise(APIError(<<"Request failed: ">> \o error.msg))

\* try: <body> except requests.exceptions.RequestException as e:
\*     self._handle_request_error(e, resource_type, resource_id)
\* A handler that returned would let the operation fall off its end and return None.
TryRequest(body, resource_type, resource_id) ==
    IF Raised(body) /\ IsRequestException(body.exc)
    THEN LET h == _handle_request_error(body.exc, resource_type, resource_id)
         IN  IF Raised(h) THEN h ELSE Return(PyNone)
    ELSE body

Request(method, path, params, body) ==
    [method |-> method, path |-> path, params |-> params, json |-> body]

\* one client operation: the requests it issued and how it ended
Done(reqs, out) == [reqs |-> reqs, out |-> out]

\* a dict literal of one or two entries
D1(k, v) == [x \in {k} |-> v]
D2(k1, v1, k2, v2) == [x \in {k1, k2} |-> IF x = k1 THEN v1 ELSE v2]

\* a faulty variant of the dict merge: the entries of a win
Merge_first_wins(a, b) == a @@ b

\* {**a, **b}: the entries of b win
Merge(a, b) == b @@ a

\* BookClubAPI.register_server
register_server(guild_id, server_name, x) ==
    LET data == D2("id", guild_id, "name", server_name)
    IN  Done(<<Request("POST", "/server", EmptyDict, data)>>,
             TryRequest(SendAndParse(x), "server", NoId))

\* BookClubAPI.get_server
get_server(guild_id, x) ==
    LET params == D1("id", guild_id)
    IN  Done(<<Request("GET", "/server", params, EmptyDict)>>,
             TryRequest(SendAndParse(x), "server", <<guild_id>>))

\* BookClubAPI.get_all_servers
get_all_servers(x) ==
    Done(<<Request("GET", "/server", EmptyDict, EmptyDict)>>,
         TryRequest(SendAndParse(x), "servers", NoId))

\* BookClubAPI.get_server_clubs: server_data.get('clubs', []) of get_server's result;
\* an APIError of get_server is no RequestException and passes the except clause
get_server_clubs(guild_id, x) ==
    LET inner == get_server(guild_id, x)
        body == IF Raised(inner.out) THEN inner.out
                ELSE IF inner.out.value.type # "dict"
                THEN Raise(Exc("AttributeError", <<"'NoneType' object has no attribute 'get'">>))
                ELSE LET server_data == inner.out.value.dict
                     IN  Return(PyList(IF "clubs" \in DOMAIN server_data
                                       THEN server_data["clubs"] ELSE "[]"))
    IN  Done(inner.reqs, TryRequest(body, "server", <<guild_id>>))

\* BookClubAPI.update_server
update_server(guild_id, server_name, x) ==
    LET data == D2("id", guild_id, "name", server_name)
    IN  Done(<<Request("PUT", "/server", EmptyDict, data)>>,
             TryRequest(SendAndParse(x), "server", <<guild_id>>))

\* BookClubAPI.delete_server
delete_server(guild_id, x) ==
    LET params == D1("id", guild_id)
    IN  Done(<<Request("DELETE", "/server", params, EmptyDict)>>,
             TryRequest(SendAndParse(x), "server", <<guild_id>>))

\* BookClubAPI.get_club
get_club(club_id, guild_id, x) ==
    LET params == D2("id", club_id, "server_id", guild_id)
    IN  Done(<<Request("GET", "/club", params, EmptyDict)>>,
             TryRequest(SendAndParse(x), "club", <<club_id>>))

\* a faulty variant of get_club_by_discord_channel: a failed request is sent a second time
get_club_by_discord_channel_retry(discord_channel_id, guild_id, x) ==
    LET params == D2("discord_channel", discord_channel_id, "server_id", guild_id)
        request == Request("GET", "/club", params, EmptyDict)
        out == TryRequest(SendAndParse(x), "club", <<"discord_channel:", discord_channel_id>>)
    IN  Done(IF Raised(out) THEN <<request, request>> ELSE <<request>>, out)

\* BookClubAPI.get_club_by_discord_channel
get_club_by_discord_channel(discord_channel_id, guild_id, x) ==
    LET params == D2("discord_channel", discord_channel_id, "server_id", guild_id)
    IN  Done(<<Request("GET", "/club", params, EmptyDict)>>,
             TryRequest(SendAndParse(x), "club", <<"discord_channel:", discord_channel_id>>))

\* a faulty variant of find_club_in_channel: `except APIError: return None`
find_club_in_channel_except_APIError(channel_id, guild_id, x) ==
    LET inner == get_club_by_discord_channel(channel_id, guild_id, x)
    IN  Done(inner.reqs,
             IF Raised(inner.out) /\ IsAPIError(inner.out.exc)
             THEN Return(PyNone)
             ELSE inner.out)

\* BookClubAPI.find_club_in_channel
find_club_in_channel(channel_id, guild_id, x) ==
    LET inner == get_club_by_discord_channel(channel_id, guild_id, x)
    IN  Done(inner.reqs,
             IF Raised(inner.out) /\ isinstance(inner.out.exc, "ResourceNotFoundError")
             THEN Return(PyNone)
             ELSE inner.out)

\* a faulty variant of create_club: data = {"server_id": guild_id, **club_data}
create_club_data_wins(club_data, guild_id, x) ==
    LET data == club_data @@ D1("server_id", guild_id)
    IN  Done(<<Request("POST", "/club", EmptyDict, data)>>,
             TryRequest(SendAndParse(x), "club", NoId))

\* BookClubAPI.create_club
create_club(club_data, guild_id, x) ==
    LET data == Merge(club_data, D1("server_id", guild_id))
    IN  Done(<<Request("POST", "/club", EmptyDict, data)>>,
             TryRequest(SendAndParse(x), "club", NoId))

\* BookClubAPI.update_club
update_club(club_id, update_data, guild_id, x) ==
    LET data == Merge(D2("id", club_id, "server_id", guild_id), update_data)
    IN  Done(<<Request("PUT", "/club", EmptyDict, data)>>,
             TryRequest(SendAndParse(x), "club", <<club_id>>))

\* BookClubAPI.delete_club
delete_club(club_id, guild_id, x) ==
    LET params == D2("id", club_id, "server_id", guild_id)
    IN  Done(<<Request("DELETE", "/club", params, EmptyDict)>>,
             TryRequest(SendAndParse(x), "club", <<club_id>>))

\* BookClubAPI.get_member
get_member(member_id, x) ==
    LET params == D1("id", str(member_id))
    IN  Done(<<Request("GET", "/member", params, EmptyDict)>>,
             TryRequest(SendAndParse(x), "member", <<str(member_id)>>))

\* BookClubAPI.create_member
create_member(member_data, x) ==
    Done(<<Request("POST", "/member", EmptyDict, member_data)>>,
         TryRequest(SendAndParse(x), "member", NoId))

\* BookClubAPI.update_member
update_member(member_id, update_data, x) ==
    LET data == Merge(D1("id", member_id), update_data)
    IN  Done(<<Request("PUT", "/member", EmptyDict, data)>>,
             TryRequest(SendAndParse(x), "member", <<str(member_id)>>))

\* BookClubAPI.delete_member
delete_member(member_id, x) ==
    LET params == D1("id", str(member_id))
    IN  Done(<<Request("DELETE", "/member", params, EmptyDict)>>,
             TryRequest(SendAndParse(x), "member", <<str(member_id)>>))

\* BookClubAPI.get_session
get_session(session_id, x) ==
    LET params == D1("id", session_id)
    IN  Done(<<Request("GET", "/session", params, EmptyDict)>>,
             TryRequest(SendAndParse(x), "session", <<session_id>>))

\* BookClubAPI.create_session
create_session(session_data, x) ==
    Done(<<Request("POST", "/session", EmptyDict, session_data)>>,
         TryRequest(SendAndParse(x), "session", NoId))

\* BookClubAPI.update_session
update_session(session_id, update_data, x) ==
    LET data == Merge(D1("id", session_id), update_data)
    IN  Done(<<Request("PUT", "/session", EmptyDict, data)>>,
             TryRequest(SendAndParse(x), "session", <<session_id>>))

\* BookClubAPI.delete_session
delete_session(session_id, x) ==
    LET params == D1("id", session_id)
    IN  Done(<<Request("DELETE", "/session", params, EmptyDict)>>,
             TryRequest(SendAndParse(x), "session", <<session_id>>))

----------------------------------------------------------------------------
(* A direct caller of the client: one action per operation *)

ServerNames == {"Guild"}
ClubDatas == {D2("name", "New Club", "members", "[]"),
              D2("name", "New Club", "server_id", "g9")}
ClubUpdates == {D1("name", "Renamed"), D2("id", "club-9", "server_id", "g9")}
MemberDatas == {D2("name", "X", "points", "150")}
MemberUpdates == {D2("name", "X", "points", "150"), D2("id", "9", "name", "X")}
SessionDatas == {D2("club_id", "club-1", "due_date", "2025-05-01")}
SessionUpdates == {D1("due_date", "2025-06-01"), D2("id", "session-9", "due_date", "2025-06-01")}

\* the record of one completed call: the operation, its arguments, the exchange the
\* network produced for its request, the requests issued and the outcome
Call(op, id, guild, data, x, done) ==
    [op |-> op, id |-> id, guild |-> guild, data |-> data, x |-> x,
     reqs |-> done.reqs, out |-> done.out]

NoCall ==
    [op |-> "none", id |-> "", guild |-> "", data |-> EmptyDict,
     x |-> Response(200, "{}"), reqs |-> << >>, out |-> Return(PyNone)]

RegisterServer ==
    \E g \in GuildIds, n \in ServerNames, x \in Exchanges :
        /\ apiCall.op = "none"
        /\ apiCall' = Call("register_server", "", g, D1("name", n), x, register_server(g, n, x))
        /\ ClientCalled
        /\ UNCHANGED cmdVars

GetServer ==
    \E g \in GuildIds \cup {""}, x \in Exchanges :
        /\ apiCall.op = "none"
        /\ apiCall' = Call("get_server", g, g, EmptyDict, x, get_server(g, x))
        /\ ClientCalled
        /\ UNCHANGED cmdVars

GetAllServers ==
    \E x \in Exchanges :
        /\ apiCall.op = "none"
        /\ apiCall' = Call("get_all_servers", "", "", EmptyDict, x, get_all_servers(x))
        /\ ClientCalled
        /\ UNCHANGED cmdVars

GetServerClubs ==
    \E g \in GuildIds \cup {""}, x \in Exchanges :
        /\ apiCall.op = "none"
        /\ apiCall' = Call("get_server_clubs", g, g, EmptyDict, x, get_server_clubs(g, x))
        /\ ClientCalled
        /\ UNCHANGED cmdVars

UpdateServer ==
    \E g \in GuildIds, n \in ServerNames, x \in Exchanges :
        /\ apiCall.op = "none"
        /\ apiCall' = Call("update_server", g, g, D1("name", n), x, update_server(g, n, x))
        /\ ClientCalled
        /\ UNCHANGED cmdVars

DeleteServer ==
    \E g \in GuildIds, x \in Exchanges :
        /\ apiCall.op = "none"
        /\ apiCall' = Call("delete_server", g, g, EmptyDict, x, delete_server(g, x))
        /\ ClientCalled
        /\ UNCHANGED cmdVars

GetClub ==
    \E c \in ClubIds, g \in GuildIds, x \in Exchanges :
        /\ apiCall.op = "none"
        /\ apiCall' = Call("get_club", c, g, EmptyDict, x, get_club(c, g, x))
        /\ ClientCalled
        /\ UNCHANGED cmdVars

GetClubByDiscordChannel ==
    \E ch \in ChannelIds \cup {""}, g \in GuildIds, x \in Exchanges :
        /\ apiCall.op = "none"
        /\ apiCall' = Call("get_club_by_discord_channel", ch, g, EmptyDict, x,
                           get_club_by_discord_channel(ch, g, x))
        /\ ClientCalled
        /\ UNCHANGED cmdVars

FindClubInChannel ==
    \E ch \in ChannelIds \cup {""}, g \in GuildIds, x \in Exchanges :
        /\ apiCall.op = "none"
        /\ apiCall' = Call("find_club_in_channel", ch, g, EmptyDict, x,
                           find_club_in_channel(ch, g, x))
        /\ ClientCalled
        /\ UNCHANGED cmdVars

CreateClub ==
    \E d \in ClubDatas, g \in GuildIds, x \in Exchanges :
        /\ apiCall.op = "none"
        /\ apiCall' = Call("create_club", "", g, d, x, create_club(d, g, x))
        /\ ClientCalled
        /\ UNCHANGED cmdVars

UpdateClub ==
    \E c \in ClubIds, d \in ClubUpdates, g \in GuildIds, x \in Exchanges :
        /\ apiCall.op = "none"
        /\ apiCall' = Call("update_club", c, g, d, x, update_club(c, d, g, x))
        /\ ClientCalled
        /\ UNCHANGED cmdVars

DeleteClub ==
    \E c \in ClubIds, g \in GuildIds, x \in Exchanges :
        /\ apiCall.op = "none"
        /\ apiCall' = Call("delete_club", c, g, EmptyDict, x, delete_club(c, g, x))
        /\ ClientCalled
        /\ UNCHANGED cmdVars

GetMember ==
    \E m \in MemberIds, x \in Exchanges :
        /\ apiCall.op = "none"
        /\ apiCall' = Call("get_member", str(m), "", EmptyDict, x, get_member(m, x))
        /\ ClientCalled
        /\ UNCHANGED cmdVars

CreateMember ==
    \E d \in MemberDatas, x \in Exchanges :
        /\ apiCall.op = "none"
        /\ apiCall' = Call("create_member", "", "", d, x, create_member(d, x))
        /\ ClientCalled
        /\ UNCHANGED cmdVars

UpdateMember ==
    \E m \in MemberIds, d \in MemberUpdates, x \in Exchanges :
        /\ apiCall.op = "none"
        /\ apiCall' = Call("update_member", str(m), "", d, x, update_member(m, d, x))
        /\ ClientCalled
        /\ UNCHANGED cmdVars

DeleteMember ==
    \E m \in MemberIds, x \in Exchanges :
        /\ apiCall.op = "none"
        /\ apiCall' = Call("delete_member", str(m), "", EmptyDict, x, delete_member(m, x))
        /\ ClientCalled
        /\ UNCHANGED cmdVars

GetSession ==
    \E s \in SessionIds, x \in Exchanges :
        /\ apiCall.op = "none"
        /\ apiCall' = Call("get_session", s, "", EmptyDict, x, get_session(s, x))
        /\ ClientCalled
        /\ UNCHANGED cmdVars

CreateSession ==
    \E d \in SessionDatas, x \in Exchanges :
        /\ apiCall.op = "none"
        /\ apiCall' = Call("create_session", "", "", d, x, create_session(d, x))
        /\ ClientCalled
        /\ UNCHANGED cmdVars

UpdateSession ==
    \E s \in SessionIds, d \in SessionUpdates, x \in Exchanges :
        /\ apiCall.op = "none"
        /\ apiCall' = Call("update_session", s, "", d, x, update_session(s, d, x))
        /\ ClientCalled
        /\ UNCHANGED cmdVars

DeleteSession ==
    \E s \in SessionIds, x \in Exchanges :
        /\ apiCall.op = "none"
        /\ apiCall' = Call("delete_session", s, "", EmptyDict, x, delete_session(s, x))
        /\ ClientCalled
        /\ UNCHANGED cmdVars

\* the caller is done with the result and may call again
CallerReturns ==
    /\ apiCall.op # "none"
    /\ apiCall' = NoCall
    /\ UNCHANGED <<cmdVars, shared>>

NextApi ==
    \/ RegisterServer \/ GetServer \/ GetAllServers \/ GetServerClubs
    \/ UpdateServer \/ DeleteServer
    \/ GetClub \/ GetClubByDiscordChannel \/ FindClubInChannel
    \/ CreateClub \/ UpdateClub \/ DeleteClub
    \/ GetMember \/ CreateMember \/ UpdateMember \/ DeleteMember
    \/ GetSession \/ CreateSession \/ UpdateSession \/ DeleteSession
    \/ CallerReturns

----------------------------------------------------------------------------
(* The remote backend and the faults of the network, as the commands meet them *)

\* a club the backend holds: the channel it is bound to and the state of its session
Row(exists, channel, session) == [exists |-> exists, channel |-> channel, session |-> session]

\* the guilds the model runs against: club-1 is the default club, bound to channel 1 when
\* it exists; club-2 is bound to channel 2 when it exists
Backends ==
    {[c \in {"club-1", "club-2"} |->
        IF c = "club-1" THEN Row(TRUE, "1", "active") ELSE Row(FALSE, "", "idle")],
     [c \in {"club-1", "club-2"} |->
        IF c = "club-1" THEN Row(TRUE, "1", "idle") ELSE Row(TRUE, "2", "active")],
     [c \in {"club-1", "club-2"} |->
        IF c = "club-1" THEN Row(FALSE, "", "idle") ELSE Row(TRUE, "2", "nobook")]}

\* GET /club?id=&server_id=  or  GET /club?discord_channel=&server_id=
BackendAnswer(params) ==
    LET found ==
            IF "id" \in DOMAIN params
            THEN {c \in DOMAIN backend : backend[c].exists /\ c = params["id"]}
            ELSE {c \in DOMAIN backend :
                    backend[c].exists /\ backend[c].channel = params["discord_channel"]}
    IN  IF found # {} /\ params["server_id"] \in GuildIds
        THEN LET c == CHOOSE c \in found : TRUE
             IN  Response(200, ClubText(c, backend[c].channel, backend[c].session))
        ELSE Response(404, "{error}")

Faults ==
    {Response(400, "{error}"), Response(401, "{error}"), Response(500, "Not found"),
     Response(304, ""), Response(200, "{}"),
     TransportFailure("ConnectionError", "Connection refused")}

ExchangesFor(request) == {BackendAnswer(request.params)} \cup Faults

----------------------------------------------------------------------------
(* Interactions, replies and embeds *)

Event(t, kind, text, body, fields, flags) ==
    [t |-> t, kind |-> kind, text |-> text, body |-> body, fields |-> fields, flags |-> flags]

\* interaction.response.defer()
Defer == Event("defer", "", << >>, << >>, << >>, {})

DmNotice == "This command can only be used in a Discord server, not in DMs."

\* a faulty variant of the initial response: ephemeral=True left out
SendMessage_public(text) == Event("send_message", "text", text, << >>, << >>, {})

\* interaction.response.send_message(text, ephemeral=True)
SendMessage(text) == Event("send_message", "text", text, << >>, << >>, {"ephemeral"})

\* interaction.followup.send(text)
FollowupText(text) == Event("followup", "text", text, << >>, << >>, {})

\* interaction.followup.send(embed=create_embed(title, description, color_key, fields, footer))
FollowupEmbed(title, description, color_key, fields) ==
    Event("followup", "embed", title, description, fields, {color_key})

\* a call of a client operation or of a service, with its positional arguments
CallEvent(name, args) == Event("call", name, args, << >>, << >>, {})

\* an HTTP request put on the wire
HttpEvent(request) == Event("http", request.method, <<request.path>>, << >>, << >>, {})

Commands == {"book", "duedate", "session", "discussions", "book_summary", "ask"}
SessionCommands == Commands \ {"ask"}

Questions == {"Who is Paul?"}
Answers == {"What do you think?", ""}

MaxInvocations == 1
Slots == 1 .. MaxInvocations

\* interaction.guild_id: 0 stands for None (a direct message)
InteractionGuilds == {0, 7}
InteractionChannels == {1, 2}

Idle ==
    [cmd |-> "", guild_id |-> 0, channel_id |-> 0, question |-> "", pc |-> "idle",
     events |-> << >>, result |-> "", exc |-> NoExc, request |-> Request("", "", EmptyDict, EmptyDict),
     x |-> NoExchange, book_title |-> "", eng |-> "", answer |-> ""]

\* the command coroutine ends by returning / by an exception leaving it
Finish(r, events) == [r EXCEPT !.pc = "done", !.result = "returned", !.events = events]
Fail(r, events, e) == [r EXCEPT !.pc = "done", !.result = "raised", !.exc = e, !.events = events]

\* a faulty variant of a command's opening: the guild check left to the helper
StartCommand_no_guild_check(r) == [r EXCEPT !.pc = "deferred", !.events = <<Defer>>]

\* a faulty variant of a command's opening: `await interaction.response.defer()` left out
StartCommand_no_defer(r) ==
    IF r.guild_id = 0
    THEN Finish(r, <<SendMessage(<<DmNotice>>)>>)
    ELSE [r EXCEPT !.pc = "deferred"]

\* a command up to its first suspension: the guild check with its ephemeral notice,
\* then `await interaction.response.defer()`
StartCommand(r) ==
    IF r.guild_id = 0
    THEN Finish(r, <<SendMessage(<<DmNotice>>)>>)
    ELSE [r EXCEPT !.pc = "deferred", !.events = <<Defer>>]

KeyError(k) == Exc("KeyError", <<k>>)

DEFAULT_CLUB_ID == "club-1"

----------------------------------------------------------------------------
(* cogs/session_commands.py *)

\* the discussion lists the documents carry, as lists of dicts
DiscussionList(token) ==
    IF token = "[d20,d15]"
    THEN <<[k \in {"title", "date", "location"} |->
                CASE k = "title" -> "Second Discussion" [] k = "date" -> "2025-04-20"
                  [] OTHER -> "Room 202"],
           [k \in {"title", "date"} |->
                IF k = "title" THEN "First Discussion" ELSE "2025-04-15"]>>
    ELSE << >>

\* the order of Python's str comparison on the date strings in use
StrRank(d) == CASE d = "2025-04-15" -> 1 [] d = "2025-04-20" -> 2 [] OTHER -> 3

RECURSIVE InsertByDate(_, _)
\* insert d after every element whose date is not greater (list.sort is stable)
InsertByDate(sorted, d) ==
    IF sorted = << >> THEN <<d>>
    ELSE IF StrRank(Head(sorted)["date"]) <= StrRank(d["date"])
         THEN <<Head(sorted)>> \o InsertByDate(Tail(sorted), d)
         ELSE <<d>> \o sorted

\* a faulty variant of the sort: the list is left in the order the backend gave
SortByDate_unsorted(l) == l

RECURSIVE SortByDate(_)
\* discussions.sort(key=lambda x: x['date'])
SortByDate(l) ==
    IF l = << >> THEN << >>
    ELSE InsertByDate(SortByDate(SubSeq(l, 1, Len(l) - 1)), l[Len(l)])

\* an interpolated value in an f-string: None is written "None"
Format(v) == IF v = "null" THEN "None" ELSE v

\* discussions_command: the sort and the embed fields, one per discussion;
\* each field is <<name parts, value parts>> flattened
DiscussionFields(discussions) ==
    LET sorted == SortByDate(discussions)
    IN  [i \in DOMAIN sorted |->
            <<"Discussion ", str(i), ": ", sorted[i]["title"],
              "**Date**: ", sorted[i]["date"], "**Location**: ",
              Format(IF "location" \in DOMAIN sorted[i]
                     THEN sorted[i]["location"] ELSE "TBD")>>]

\* a faulty variant of the commands: an error of the lookup is caught and reported
SessionLookupRaised_caught(r, e) ==
    Finish(r, Append(r.events, FollowupText(<<"Something went wrong. Please try again later.">>)))

\* get_club raised e: neither _get_active_session nor a command has an except clause,
\* so the exception leaves the command
SessionLookupRaised(r, e) == Fail(r, r.events, e)

\* the rest of _get_active_session and of the command, once get_club has ended with `out`
AfterSessionLookup(r, out) ==
    IF Raised(out) THEN SessionLookupRaised(r, out.exc)
    ELSE IF out.value.type # "dict"
    THEN Fail(r, r.events, Exc("AttributeError", <<"'NoneType' object has no attribute 'get'">>))
    ELSE
    LET club_data == out.value.dict IN
    IF ~IsTruthy(club_data, "active_session")
    THEN Finish(r, Append(r.events,
                          FollowupText(<<"There is no active reading session right now.">>)))
    ELSE
    LET hasBook == "active_session.book" \in DOMAIN club_data
        title == club_data["active_session.book.title"]
        author == club_data["active_session.book.author"]
        due_date == club_data["active_session.due_date"]
        discussions ==
            IF IsTruthy(club_data, "active_session.discussions")
            THEN DiscussionList(club_data["active_session.discussions"]) ELSE << >>
    IN  CASE r.cmd = "book" ->
                IF ~hasBook THEN Fail(r, r.events, KeyError("book"))
                ELSE Finish(r, Append(r.events,
                        FollowupEmbed(<<"Current Book">>, <<"**", title, "**">>, "info",
                                      <<<<"Author", author>>>>)))
          [] r.cmd = "duedate" ->
                Finish(r, Append(r.events,
                        FollowupEmbed(<<"Due Date">>,
                                      <<"Session due date: **", due_date, "**">>, "warning",
                                      << >>)))
          [] r.cmd = "session" ->
                IF ~hasBook THEN Fail(r, r.events, KeyError("book"))
                ELSE Finish(r, Append(r.events,
                        FollowupEmbed(<<"Current Session Details">>, << >>, "info",
                            <<<<"Book", title>>, <<"Author", author>>, <<"Due Date", due_date>>>>
                            \o (IF Len(discussions) > 0
                                THEN <<<<"Discussions", str(Len(discussions)), " scheduled">>>>
                                ELSE << >>))))
          [] r.cmd = "discussions" ->
                IF Len(discussions) = 0
                THEN Finish(r, Append(r.events, FollowupText(
                        <<"There are no discussions scheduled for this session.">>)))
                ELSE Finish(r, Append(r.events,
                        FollowupEmbed(<<"Book Discussion Details">>, << >>, "info",
                                      DiscussionFields(discussions))))
          [] OTHER ->
                \* book_summary: await bot.openai_service.get_response(...)
                IF ~hasBook THEN Fail(r, r.events, KeyError("book"))
                ELSE [r EXCEPT !.pc = "completion", !.book_title = title,
                               !.events = Append(r.events,
                                    CallEvent("openai_service.get_response",
                                              <<"What is ", title, " about?">>))]

\* _get_active_session up to its blocking call, after the command's defer has returned
BeginSessionLookup(r) ==
    IF r.guild_id = 0
    THEN Finish(r, Append(r.events, FollowupText(<<DmNotice>>)))
    ELSE LET guild_id == str(r.guild_id)
             club_id == DEFAULT_CLUB_ID
         IN  [r EXCEPT !.pc = "http",
                       !.request = Request("GET", "/club",
                                           D2("id", club_id, "server_id", guild_id), EmptyDict),
                       !.events = Append(r.events, CallEvent("get_club", <<club_id, guild_id>>))]

\* bot.api.get_club(club_id, guild_id) as the helper calls it, completed by the exchange x
EndSessionLookup(r, x) == get_club(DEFAULT_CLUB_ID, str(r.guild_id), x)

----------------------------------------------------------------------------
(* services/brains_service.py *)

default_scope == "humanitarian_ai_experiment"

\* a faulty variant of the scope: the argument is passed on as given
actual_scope_given(scope) == scope

\* actual_scope = scope or self.default_scope, for a scope that is a string or None
actual_scope(scope) ==
    IF scope \notin {"", "null"} THEN scope ELSE shared.brains["default_scope"]

\* a faulty variant of the await in BrainsService.ask: engine.ask called inline, on the
\* event loop thread, which invocation i then holds
to_thread_inline(i) == i

\* asyncio.to_thread(self.engine.ask, ...): the engine runs on a worker thread and the
\* event loop thread is held by nobody while it does
to_thread(i) == 0

\* a credential as the configuration hands it over: a string, empty, or None
Credentials == {"https://brains.supabase.co", "key", "", "null"}

\* a faulty variant of the credentials test: any() in place of all()
all_any(values) == \E k \in DOMAIN values : values[k] \notin {"", "null"}

\* all([...]) on strings and None: every one is truthy
all(values) == \A k \in DOMAIN values : values[k] \notin {"", "null"}

\* the construction of a BrainsService: the engines it created and how it ended
Built(engines, out) == [engines |-> engines, out |-> out]

\* BrainsService.__init__
BrainsService(supabase_url, supabase_key, openai_key) ==
    IF ~all(<<supabase_url, supabase_key, openai_key>>)
    THEN Built(<< >>, Raise(Exc("ValueError",
                                <<"All API credentials required for BrainsService">>)))
    ELSE Built(<<<<supabase_url, supabase_key, openai_key>>>>,
               Return([type |-> "BrainsService",
                       dict |-> D1("default_scope", default_scope), list |-> ""]))

\* a faulty variant of BrainsService.ask: self.default_scope = scope or self.default_scope
BrainsServiceAfterAsk_assigns(self, scope) ==
    [self EXCEPT !["default_scope"] = actual_scope(scope)]

\* the tutoring service after ask has run: the scope in effect is a local of the
\* method, and no field is assigned
BrainsServiceAfterAsk(self, scope) == self

\* ask is called on the shared tutoring service
ServiceAsked(scope) ==
    shared' = [shared EXCEPT !.brains = BrainsServiceAfterAsk(shared.brains, scope)]

\* the configuration the entry point reads at startup
SUPABASE_URL == <<"https://project.supabase.co", "/">>
SUPABASE_KEY == "key"
KEY_OPENAI == "openai-key"

\* the entry point builds the client and the tutoring service once
Startup ==
    [api |-> BookClubAPI(SUPABASE_URL, SUPABASE_KEY),
     brains |-> BrainsService(SUPABASE_URL[1], SUPABASE_KEY, KEY_OPENAI).out.value.dict]

\* BrainsService.ask up to its await: the arguments handed to engine.ask
BrainsAskCall(question, book_title, scope) ==
    CallEvent("engine.ask", <<question, actual_scope(scope), book_title>>)

\* a Python str as a returned value
PyStr(s) == [type |-> "str", dict |-> EmptyDict, list |-> s]

\* what engine.ask produced on its worker thread
engine_ask(eng, answer) ==
    IF eng = "failed" THEN Raise(Exc("EngineError", <<answer>>))
    ELSE Return(PyStr(answer))

\* a faulty variant of the except clause: the engine's error is wrapped in a new one
BrainsAskAwait_wrap(response) ==
    IF Raised(response)
    THEN Raise(Exc("RuntimeError", <<"BrainsService.ask() failed: ">> \o response.exc.msg))
    ELSE Return(response.value)

\* the try statement of BrainsService.ask around its await:
\*   response = await ...; return response / except Exception: raise
BrainsAskAwait(response) ==
    IF Raised(response) THEN Raise(response.exc) ELSE Return(response.value)

\* BrainsService.ask after its await: the response returned, or the engine's error re-raised
BrainsAskResult(eng, answer) == BrainsAskAwait(engine_ask(eng, answer))

----------------------------------------------------------------------------
(* cogs/brains_commands.py *)

ErrorEmbed ==
    FollowupEmbed(<<"Error">>,
        <<"I encountered an error while processing your question. Please try again later.">>,
        "error", << >>)

\* a faulty variant of ask_command's except clauses: no `except ResourceNotFoundError`
AskExcept_catch_all(r, e) == Finish(r, Append(r.events, ErrorEmbed))

\* a faulty variant of ask_command's except clauses: every exception is re-raised
AskExcept_reraise_all(r, e) == Fail(r, r.events, e)

\* the except clauses of ask_command, for an exception e raised inside its try block
AskExcept(r, e) ==
    IF isinstance(e, "ResourceNotFoundError")
    THEN Fail(r, r.events, e)
    ELSE Finish(r, Append(r.events, ErrorEmbed))

\* ask_command's try block up to its blocking call, after the defer has returned
BeginAskLookup(r) ==
    LET guild_id == str(r.guild_id)
        channel_id == str(r.channel_id)
    IN  [r EXCEPT !.pc = "http",
                  !.request = Request("GET", "/club",
                                      D2("discord_channel", channel_id, "server_id", guild_id),
                                      EmptyDict),
                  !.events = Append(r.events,
                                    CallEvent("find_club_in_channel", <<channel_id, guild_id>>))]

\* bot.api.find_club_in_channel(channel_id, guild_id), completed by the exchange x
EndAskLookup(r, x) == find_club_in_channel(str(r.channel_id), str(r.guild_id), x)

\* `not club_data`
IsFalsyValue(v) == v.type = "None" \/ (v.type = "dict" /\ v.dict = EmptyDict)

\* the rest of ask_command's try block up to the await of the tutoring service
AfterAskLookup(r, out) ==
    IF Raised(out) THEN AskExcept(r, out.exc)
    ELSE IF IsFalsyValue(out.value)
    THEN AskExcept(r, ResourceNotFoundError(<<"No book club found in channel ",
                                              str(r.channel_id)>>))
    ELSE
    LET club_data == out.value.dict IN
    IF ~IsTruthy(club_data, "active_session")
    THEN IF "name" \notin DOMAIN club_data THEN AskExcept(r, KeyError("name"))
         ELSE Finish(r, Append(r.events, FollowupText(
                <<"There is no active reading session for **", club_data["name"],
                  "** right now. ", "I need an active book to answer questions about!">>)))
    ELSE IF "active_session.book" \notin DOMAIN club_data THEN AskExcept(r, KeyError("book"))
    ELSE IF "active_session.book.title" \notin DOMAIN club_data
    THEN AskExcept(r, KeyError("title"))
    ELSE IF "active_session.book.author" \notin DOMAIN club_data
    THEN AskExcept(r, KeyError("author"))
    ELSE LET book_title == club_data["active_session.book.title"]
         IN  [r EXCEPT !.pc = "engine", !.eng = "running", !.book_title = book_title,
                       !.events = r.events \o
                            <<CallEvent("brains_service.ask", <<r.question, book_title>>),
                              BrainsAskCall(r.question, book_title, "null")>>]

\* a faulty variant of ask_command's answer: an empty response is not sent
AfterBrainsAsk_skip_empty(r, out) ==
    IF Raised(out) THEN AskExcept(r, out.exc)
    ELSE IF out.value.list = "" THEN Finish(r, r.events)
    ELSE Finish(r, Append(r.events,
            FollowupEmbed(<<"About '", r.book_title, "'">>, <<out.value.list>>, "info", << >>)))

\* a faulty variant of ask_command's answer: the embed's title does not interpolate
\* the book title
AfterBrainsAsk_static_title(r, out) ==
    IF Raised(out) THEN AskExcept(r, out.exc)
    ELSE Finish(r, Append(r.events,
            FollowupEmbed(<<"About the book">>, <<out.value.list>>, "info", << >>)))

\* ask_command once `await bot.brains_service.ask(...)` has ended with `out`
AfterBrainsAsk(r, out) ==
    IF Raised(out) THEN AskExcept(r, out.exc)
    ELSE Finish(r, Append(r.events,
            FollowupEmbed(<<"About '", r.book_title, "'">>, <<out.value.list>>, "info", << >>)))

\* booksummary_command once `await bot.openai_service.get_response(...)` has returned
AfterCompletion(r, response) ==
    Finish(r, Append(r.events, FollowupEmbed(<<"Book Summary">>, <<response>>, "info", << >>)))

----------------------------------------------------------------------------
(* utils/schedulers.py *)

SCHEDULED_MESSAGE_HOUR == 17
\* SCHEDULED_MESSAGE_PERCENTAGE (0.4) and random.random(), in hundredths
SCHEDULED_MESSAGE_PERCENTAGE == 40

Hours == {16, 17}
Draws == {39, 40}

NoFiring ==
    [fired |-> FALSE, hour |-> 0, draw |-> 0, channel |-> FALSE, sent |-> 0, during |-> {}]

\* a faulty variant of the reminder's condition: random.random() <= the percentage
ReminderDue_le(hour, draw) ==
    hour = SCHEDULED_MESSAGE_HOUR /\ draw <= SCHEDULED_MESSAGE_PERCENTAGE

\* send_reminder_message reaches bot.get_channel(...)
ReminderDue(hour, draw) ==
    hour = SCHEDULED_MESSAGE_HOUR /\ draw < SCHEDULED_MESSAGE_PERCENTAGE

\* send_reminder_message, one firing of the hourly loop: the messages it posts
send_reminder_message(hour, draw, channel) ==
    IF ReminderDue(hour, draw)
    THEN IF channel THEN 1 ELSE 0
    ELSE 0

----------------------------------------------------------------------------
(* Parts of the bot called on their own, with inputs the commands above do not reach *)

NoUnit == [op |-> "none", arg |-> << >>, out |-> << >>]

MaxDiscussions == 3

Dates == <<"2025-04-15", "2025-04-20", "2025-05-01">>

\* a discussion of the backend: its location is a string, null or missing
Locations == {"Room 101", "null", "missing"}

Discussion(k, date, location) ==
    [key \in {"title", "date"} \cup (IF location = "missing" THEN {} ELSE {"location"}) |->
        CASE key = "title" -> "Talk " \o str(k)
          [] key = "date" -> date
          [] OTHER -> location]

\* the non-empty discussion lists of a session, the k-th discussion titled "Talk k"
DiscussionLists ==
    UNION {{[k \in 1 .. n |-> Discussion(k, d[k], l[k])] :
                d \in [1 .. n -> Range(Dates)], l \in [1 .. n -> Locations]} :
           n \in 1 .. MaxDiscussions}

\* discussions_command from its sort on, for a session with the discussions l
RenderDiscussions ==
    \E l \in DiscussionLists :
        /\ unit.op = "none"
        /\ unit' = [op |-> "discussions", arg |-> l, out |-> DiscussionFields(l)]
        /\ UNCHANGED <<apiCall, backend, inv, loop, reminder, shared>>

\* the entry point constructs the tutoring service from the configured credentials
ConstructBrainsService ==
    \E supabase_url \in Credentials, supabase_key \in Credentials, openai_key \in Credentials :
        /\ unit.op = "none"
        /\ unit' = [op |-> "BrainsService",
                    arg |-> <<supabase_url, supabase_key, openai_key>>,
                    out |-> BrainsService(supabase_url, supabase_key, openai_key)]
        /\ UNCHANGED <<apiCall, backend, inv, loop, reminder, shared>>

\* the scopes a caller may pass: None (the default), empty, or a label of its own
Scopes == {"null", "", "chapter_1"}

\* what engine.ask may produce: an answer or an error of the engine
EngineOutcomes ==
    {Return(PyStr(a)) : a \in Answers}
    \cup {Raise(Exc(c, <<"engine unavailable">>)) : c \in {"EngineError", "TimeoutError"}}

\* BrainsService.ask called with a scope of the caller's choice
BrainsAsk ==
    \E question \in Questions, book_title \in {BookTitle(c) : c \in ClubIds \ {""}},
       scope \in Scopes, response \in EngineOutcomes :
        /\ unit.op = "none"
        /\ unit' = [op |-> "BrainsService.ask",
                    arg |-> [question |-> question, book_title |-> book_title,
                             scope |-> scope, response |-> response],
                    out |-> [call |-> BrainsAskCall(question, book_title, scope),
                             out |-> BrainsAskAwait(response)]]
        /\ ServiceAsked(scope)
        /\ UNCHANGED <<apiCall, backend, inv, loop, reminder>>

\* random.random() < 0.4 and < 0.3, in hundredths
GREETING_PERCENTAGE == 40
REACTION_PERCENTAGE == 30

GREETINGS == {"Hello there!", "Welcome"}
REACTIONS == {"books", "owl"}

\* message.author and message.mentions: the bot's own user or another user
Users == {"bot", "NewUser"}

\* message.content, as the sequence of its words; the prefix character is a word
Contents ==
    {<<"any", "message">>, <<"Let's", "read", "TOGETHER">>, <<"We", "go", "altogether">>,
     <<"!", "version">>, <<"!", "together">>}

\* str.lower() of a word
lower(w) ==
    CASE w = "TOGETHER" -> "together"
      [] w = "Let's" -> "let's"
      [] w = "We" -> "we"
      [] OTHER -> w

\* 'together' in content.lower(): a substring match
ContainsTogether(content) ==
    \E k \in DOMAIN content : lower(content[k]) \in {"together", "altogether"}

\* content.startswith('!')
StartsWithPrefix(content) == Len(content) > 0 /\ content[1] = "!"

\* what a handler does to the outside: a message posted, a reaction added, a message
\* handed to the command pipeline, a record saved
Effect(t, arg) == [t |-> t, arg |-> arg]

\* the three branches of on_message, of which at most one fires
AmbientBranch(message, draw, greeting, reaction) ==
    IF "bot" \in message.mentions
    THEN IF draw < GREETING_PERCENTAGE
         THEN <<Effect("channel.send", <<greeting>>)>>
         ELSE <<Effect("add_reaction", <<reaction>>)>>
    ELSE IF ContainsTogether(message.content)
    THEN <<Effect("channel.send", <<"Reading is done best in community.">>)>>
    ELSE IF ~StartsWithPrefix(message.content) /\ draw < REACTION_PERCENTAGE
    THEN <<Effect("add_reaction", <<reaction>>)>>
    ELSE << >>

\* a faulty variant of on_message: a branch that replied returns at once
on_message_reply_returns(message, draw, greeting, reaction) ==
    IF message.author = "bot" THEN << >>
    ELSE LET branch == AmbientBranch(message, draw, greeting, reaction)
         IN  IF branch # << >> /\ branch[1].t = "channel.send"
             THEN branch
             ELSE Append(branch, Effect("process_commands", message))

\* on_message: the effects of the handler on one incoming message
on_message(message, draw, greeting, reaction) ==
    IF message.author = "bot" THEN << >>
    ELSE Append(AmbientBranch(message, draw, greeting, reaction),
                Effect("process_commands", message))

\* a faulty variant of on_member_join: the record is saved only after the welcome
on_member_join_save_if_channel(member, channel, greeting) ==
    [effects |-> IF channel # "None"
                 THEN <<Effect("channel.send", <<"New Member!", member, greeting>>),
                        Effect("db.save_club", <<member>>)>>
                 ELSE << >>,
     out |-> Return(PyNone)]

\* on_member_join: the effects and the outcome of the handler for one new member,
\* with `channel` what bot.get_channel(DEFAULT_CHANNEL) gave
on_member_join(member, channel, greeting) ==
    [effects |-> (IF channel # "None"
                  THEN <<Effect("channel.send", <<"New Member!", member, greeting>>)>>
                  ELSE << >>)
                 \o <<Effect("db.save_club", <<member>>)>>,
     out |-> Return(PyNone)]

\* random.random(), in hundredths: below both thresholds, between them, above both
MessageDraws == {10, 35, 50}

\* the platform delivers a chat message
OnMessage ==
    \E author \in Users, mentions \in SUBSET {"bot"}, content \in Contents,
       draw \in MessageDraws, greeting \in GREETINGS, reaction \in REACTIONS :
        LET message == [author |-> author, mentions |-> mentions, content |-> content]
        IN  /\ unit.op = "none"
            /\ unit' = [op |-> "on_message",
                        arg |-> [message |-> message, draw |-> draw],
                        out |-> on_message(message, draw, greeting, reaction)]
            /\ UNCHANGED <<apiCall, backend, inv, loop, reminder, shared>>

\* the platform reports a new member
OnMemberJoin ==
    \E member \in Users \ {"bot"}, channel \in {"None", "123456"}, greeting \in GREETINGS :
        /\ unit.op = "none"
        /\ unit' = [op |-> "on_member_join",
                    arg |-> [member |-> member, channel |-> channel],
                    out |-> on_member_join(member, channel, greeting)]
        /\ UNCHANGED <<apiCall, backend, inv, loop, reminder, shared>>

\* the caller is done with the result
UnitReturns ==
    /\ unit.op # "none"
    /\ unit' = NoUnit
    /\ UNCHANGED <<apiCall, backend, inv, loop, reminder, shared>>

NextUnit ==
    \/ RenderDiscussions
    \/ ConstructBrainsService
    \/ BrainsAsk
    \/ OnMessage
    \/ OnMemberJoin
    \/ UnitReturns

----------------------------------------------------------------------------
(* The event loop: one action per step a handler takes between two suspensions *)

\* the invocation waits for a downstream call: the backend, the tutoring engine or
\* the completion service
Awaiting(r) == r.pc \in {"http", "completion"} \/ (r.pc = "engine" /\ r.eng = "running")

Init ==
    /\ apiCall = NoCall
    /\ shared = Startup
    /\ backend \in Backends
    /\ inv = [i \in Slots |-> Idle]
    /\ loop = 0
    /\ reminder = NoFiring
    /\ unit = NoUnit

\* The platform dispatches a command: the handler runs to its first await, which is
\* the ephemeral DM notice (and the end of the command) or the defer.
Invoke(i) ==
    /\ loop = 0
    /\ inv[i].pc = "idle"
    /\ \A j \in Slots : j < i => inv[j].pc # "idle"
    /\ \E cmd \in Commands, g \in InteractionGuilds, ch \in InteractionChannels,
          q \in Questions :
        LET r == [Idle EXCEPT !.cmd = cmd, !.guild_id = g, !.channel_id = ch,
                              !.question = IF cmd = "ask" THEN q ELSE ""]
        IN  inv' = [inv EXCEPT ![i] = StartCommand(r)]
    /\ UNCHANGED <<apiCall, backend, loop, reminder, unit, shared>>

\* The defer has returned: the handler runs on to the client call, a synchronous
\* requests call made on the event loop thread, which it holds until the call returns.
Lookup(i) ==
    /\ loop = 0
    /\ inv[i].pc = "deferred"
    /\ LET r == IF inv[i].cmd = "ask" THEN BeginAskLookup(inv[i])
                ELSE BeginSessionLookup(inv[i])
       IN  /\ inv' = [inv EXCEPT ![i] = r]
           /\ loop' = IF r.pc = "http" THEN i ELSE 0
    /\ UNCHANGED <<apiCall, backend, reminder, unit, shared>>

\* The client call returns or raises, and the handler runs on to its next await.
LookupReturn(i) ==
    /\ loop = i
    /\ inv[i].pc = "http"
    /\ \E x \in ExchangesFor(inv[i].request) :
        LET done == IF inv[i].cmd = "ask" THEN EndAskLookup(inv[i], x)
                    ELSE EndSessionLookup(inv[i], x)
            sent == [k \in DOMAIN done.reqs |-> HttpEvent(done.reqs[k])]
            r == [inv[i] EXCEPT !.events = inv[i].events \o sent, !.request = Idle.request,
                                !.x = x]
            n == IF inv[i].cmd = "ask" THEN AfterAskLookup(r, done.out)
                 ELSE AfterSessionLookup(r, done.out)
        IN  /\ inv' = [inv EXCEPT ![i] = n]
            /\ loop' = IF n.pc = "engine" THEN to_thread(i) ELSE 0
    /\ ClientCalled
    /\ UNCHANGED <<apiCall, backend, reminder, unit>>

\* engine.ask ends on its worker thread, with an answer or an error.
EngineFinish(i) ==
    /\ inv[i].pc = "engine"
    /\ inv[i].eng = "running"
    /\ \E eng \in {"ok", "failed"}, a \in Answers :
        inv' = [inv EXCEPT ![i].eng = eng, ![i].answer = a]
    /\ UNCHANGED <<apiCall, backend, loop, reminder, unit, shared>>

\* The loop resumes ask_command with the result of BrainsService.ask.
AskResume(i) ==
    /\ loop \in {0, i}
    /\ inv[i].pc = "engine"
    /\ inv[i].eng \in {"ok", "failed"}
    /\ inv' = [inv EXCEPT ![i] =
                AfterBrainsAsk(inv[i], BrainsAskResult(inv[i].eng, inv[i].answer))]
    /\ loop' = 0
    /\ ServiceAsked("null")
    /\ UNCHANGED <<apiCall, backend, reminder, unit>>

\* The loop resumes booksummary_command with the completion service's response.
CompletionReturn(i) ==
    /\ loop = 0
    /\ inv[i].pc = "completion"
    /\ \E response \in Answers : inv' = [inv EXCEPT ![i] = AfterCompletion(inv[i], response)]
    /\ UNCHANGED <<apiCall, backend, loop, reminder, unit, shared>>

\* The hourly reminder task fires; `during` notes the invocations that were waiting
\* for a downstream call at that moment.
ReminderFire ==
    /\ loop = 0
    /\ \E hour \in Hours, draw \in Draws :
       \E channel \in IF ReminderDue(hour, draw) THEN BOOLEAN ELSE {FALSE} :
        reminder' = [fired |-> TRUE, hour |-> hour, draw |-> draw, channel |-> channel,
                     sent |-> send_reminder_message(hour, draw, channel),
                     during |-> {i \in Slots : Awaiting(inv[i])}]
    /\ UNCHANGED <<apiCall, backend, inv, loop, unit, shared>>

Next ==
    \/ \E i \in Slots : Invoke(i)
    \/ \E i \in Slots : Lookup(i)
    \/ \E i \in Slots : LookupReturn(i)
    \/ \E i \in Slots : EngineFinish(i)
    \/ \E i \in Slots : AskResume(i)
    \/ \E i \in Slots : CompletionReturn(i)
    \/ ReminderFire

Spec == Init /\ [][Next]_vars

SpecApi == Init /\ [][NextApi]_vars

SpecUnit == Init /\ [][NextUnit]_vars

\* the whole program: the direct calls of the client and of the other parts are made
\* before the first command is dispatched and the first reminder fires, and the
\* commands run once the caller is done with the result
NextAll ==
    \/ /\ \A i \in Slots : inv[i].pc = "idle"
       /\ ~reminder.fired
       /\ unit = NoUnit
       /\ NextApi
    \/ /\ \A i \in Slots : inv[i].pc = "idle"
       /\ ~reminder.fired
       /\ apiCall = NoCall
       /\ NextUnit
    \/ /\ apiCall = NoCall
       /\ unit = NoUnit
       /\ Next

SpecAll == Init /\ [][NextAll]_vars

----------------------------------------------------------------------------
(* Properties of the backend client, over the calls of SpecApi *)

\* the capitalised resource type each operation reports
ResourceNoun(op) ==
    CASE op \in {"register_server", "get_server", "get_server_clubs",
                 "update_server", "delete_server"} -> "Server"
      [] op = "get_all_servers" -> "Servers"
      [] op \in {"get_club", "get_club_by_discord_channel", "find_club_in_channel",
                 "create_club", "update_club", "delete_club"} -> "Club"
      [] op \in {"get_member", "create_member", "update_member", "delete_member"} -> "Member"
      [] OTHER -> "Session"

\* the call c was answered by an HTTP response
Answered(c) == c.op # "none" /\ c.x.kind = "response"

RaisedClass(c, cls) == Raised(c.out) /\ c.out.exc.cls = cls

\* NotFound, its text naming the resource type and the identifier passed, if any
NotFoundNaming(c) ==
    /\ RaisedClass(c, "ResourceNotFoundError")
    /\ c.out.exc.msg[1] = ResourceNoun(c.op)
    /\ c.id # "" => c.id \in Range(c.out.exc.msg)

ValidationWithBody(c) ==
    RaisedClass(c, "ValidationError") /\ c.x.text \in Range(c.out.exc.msg)

GenericWithStatusAndBody(c) ==
    /\ RaisedClass(c, "APIError")
    /\ str(c.x.status) \in Range(c.out.exc.msg)
    /\ c.x.text \in Range(c.out.exc.msg)

\* C1 as stated: for every client operation, 404 raises NotFound naming the resource
\* type and the identifier passed, 400 raises Validation carrying the body, 401 and 403
\* raise Authentication, and every other non-2xx status raises a generic API error
\* carrying the status code and the body.
C1_Original ==
    Answered(apiCall) =>
        LET st == apiCall.x.status
        IN  /\ st = 404 => NotFoundNaming(apiCall)
            /\ st = 400 => ValidationWithBody(apiCall)
            /\ st \in {401, 403} => RaisedClass(apiCall, "AuthenticationError")
            /\ (st \notin 200 .. 299 /\ st \notin {400, 401, 403, 404}) =>
                    GenericWithStatusAndBody(apiCall)

\* C1 amended: the mapping holds for the statuses 400..599, the ones raise_for_status
\* turns into an HTTPError, and for every operation but find_club_in_channel, which
\* answers a 404 by returning None; 400, 401, 403 and the generic statuses are mapped
\* the same way by find_club_in_channel too.
C1_ErrorMapping ==
    Answered(apiCall) =>
        LET st == apiCall.x.status
        IN  /\ st = 404 => IF apiCall.op = "find_club_in_channel"
                           THEN apiCall.out = Return(PyNone)
                           ELSE NotFoundNaming(apiCall)
            /\ st = 400 => ValidationWithBody(apiCall)
            /\ st \in {401, 403} => RaisedClass(apiCall, "AuthenticationError")
            /\ (st \in 400 .. 599 /\ st \notin {400, 401, 403, 404}) =>
                    GenericWithStatusAndBody(apiCall)

C1_Witness ==
    /\ apiCall.op = "update_member"
    /\ apiCall.x = Response(403, "{error}")
    /\ RaisedClass(apiCall, "AuthenticationError")

\* the classes of requests' connection failures
ConnectionFailures == {"ConnectionError", "ConnectTimeout"}

\* C2: for every client operation a transport connection failure raises an APIError
\* whose text gives connectivity guidance, every other transport exception raises an
\* APIError wrapping the exception's message, and no exception of the requests library
\* ever leaves an operation.
C2_TransportFailures ==
    apiCall.op # "none" =>
        /\ apiCall.x.kind = "exception" =>
            /\ RaisedClass(apiCall, "APIError")
            /\ IF apiCall.x.cls \in ConnectionFailures
               THEN apiCall.out.exc.msg =
                        <<"Connection error: Could not connect to the API. ",
                          "Check if the server is running and the URL is correct.">>
               ELSE apiCall.out.exc.msg = <<"Request failed: ", apiCall.x.msg>>
        /\ Raised(apiCall.out) => apiCall.out.exc.cls \notin RequestExceptionClasses

C2_Witness ==
    /\ apiCall.op = "create_session"
    /\ apiCall.x = TransportFailure("ReadTimeout", "timed out")
    /\ apiCall.out = Raise(APIError(<<"Request failed: ", "timed out">>))

\* the exchange fails: no response, or a response raise_for_status rejects
FailedExchange(x) == x.kind = "exception" \/ x.status \in 400 .. 599

\* C3: find_club_in_channel returns what get_club_by_discord_channel returns, returns
\* None when that lookup raises ResourceNotFoundError and lets every other error of it
\* propagate unchanged; every other operation raises whenever its exchange fails.
C3_FindSwallowsOnlyNotFound ==
    apiCall.op # "none" =>
        IF apiCall.op = "find_club_in_channel"
        THEN LET inner == get_club_by_discord_channel(apiCall.id, apiCall.guild, apiCall.x).out
             IN  /\ Returned(inner) => apiCall.out = inner
                 /\ (Raised(inner) /\ inner.exc.cls = "ResourceNotFoundError") =>
                        apiCall.out = Return(PyNone)
                 /\ (Raised(inner) /\ inner.exc.cls # "ResourceNotFoundError") =>
                        /\ apiCall.out = inner
                        /\ inner.exc.cls \in {"ValidationError", "AuthenticationError", "APIError"}
        ELSE FailedExchange(apiCall.x) => Raised(apiCall.out)

C3_Witness ==
    /\ apiCall.op = "find_club_in_channel"
    /\ apiCall.x.status = 404
    /\ apiCall.out = Return(PyNone)

\* the three kinds derived from the generic one
SpecificKinds == {"ResourceNotFoundError", "ValidationError", "AuthenticationError"}

\* C21: every error a client operation raises is caught by a handler for the generic
\* API kind, whichever of the four kinds it is, and a handler for one of the three
\* specific kinds catches it exactly when it is of that kind: not when it is of one
\* of the other two, and not when it is a plain API error.
C21_ErrorKinds ==
    Raised(apiCall.out) =>
        /\ apiCall.out.exc.cls \in ApiErrorClasses
        /\ isinstance(apiCall.out.exc, "APIError")
        /\ isinstance(apiCall.out.exc, "Exception")
        /\ \A k \in SpecificKinds :
                isinstance(apiCall.out.exc, k) <=> apiCall.out.exc.cls = k

C21_Witness ==
    /\ Raised(apiCall.out)
    /\ apiCall.out.exc.cls = "ValidationError"
    /\ isinstance(apiCall.out.exc, "APIError")
    /\ ~isinstance(apiCall.out.exc, "ResourceNotFoundError")
    /\ ~isinstance(apiCall.out.exc, "AuthenticationError")

\* C15: create_club issues one POST to /club whose body has every key of the data
\* with the data's value, plus server_id, which is the guild argument even when the
\* data carries a server_id of its own.
C15_CreateClubBody ==
    apiCall.op = "create_club" =>
        LET request == apiCall.reqs[1]
        IN  /\ request.method = "POST" /\ request.path = "/club"
            /\ DOMAIN request.json = DOMAIN apiCall.data \cup {"server_id"}
            /\ request.json["server_id"] = apiCall.guild
            /\ \A k \in DOMAIN apiCall.data \ {"server_id"} :
                    request.json[k] = apiCall.data[k]

C15_Witness ==
    /\ apiCall.op = "create_club"
    /\ "server_id" \in DOMAIN apiCall.data /\ apiCall.data["server_id"] # apiCall.guild
    /\ apiCall.reqs[1].json =
            [k \in {"name", "server_id"} |-> IF k = "name" THEN "New Club" ELSE "7"]

\* C16: update_club, update_member and update_session issue one PUT whose body has the
\* keys id (and server_id for a club) and the keys of the data; every key of the data
\* carries the caller's value, and an identifying key the data does not carry is the
\* operation's argument.
C16_UpdateBodies ==
    apiCall.op \in {"update_club", "update_member", "update_session"} =>
        LET request == apiCall.reqs[1]
            ids == IF apiCall.op = "update_club" THEN {"id", "server_id"} ELSE {"id"}
        IN  /\ request.method = "PUT"
            /\ request.path = (CASE apiCall.op = "update_club" -> "/club"
                                 [] apiCall.op = "update_member" -> "/member"
                                 [] OTHER -> "/session")
            /\ DOMAIN request.json = ids \cup DOMAIN apiCall.data
            /\ \A k \in DOMAIN apiCall.data : request.json[k] = apiCall.data[k]
            /\ "id" \notin DOMAIN apiCall.data =>
                    IF apiCall.op = "update_member"
                    THEN request.json["id"] \in MemberIds
                         /\ str(request.json["id"]) = apiCall.id
                    ELSE request.json["id"] = apiCall.id
            /\ ("server_id" \in ids \ DOMAIN apiCall.data) =>
                    request.json["server_id"] = apiCall.guild

C16_Witness ==
    /\ apiCall.op = "update_member"
    /\ apiCall.data = D2("name", "X", "points", "150")
    /\ apiCall.reqs[1].json =
            [k \in {"id", "name", "points"} |->
                CASE k = "id" -> 1 [] k = "name" -> "X" [] OTHER -> "150"]

\* C26: the id in the PUT body of update_club, update_member and update_session (and
\* the server_id in update_club's) is the argument of the call, whatever keys the
\* update data carries.
C26_Original ==
    apiCall.op \in {"update_club", "update_member", "update_session"} =>
        LET request == apiCall.reqs[1]
        IN  /\ request.method = "PUT"
            /\ IF apiCall.op = "update_member"
               THEN request.json["id"] \in MemberIds /\ str(request.json["id"]) = apiCall.id
               ELSE request.json["id"] = apiCall.id
            /\ apiCall.op = "update_club" => request.json["server_id"] = apiCall.guild

\* what the operation returns for the parsed body: get_server_clubs its clubs list, or
\* an empty list when the key is missing, every other operation the body itself
ReturnedBody(op, x) ==
    LET doc == (CHOOSE p \in JsonDocs : p[1] = x.text)[2]
    IN  IF op = "get_server_clubs"
        THEN PyList(IF "clubs" \in DOMAIN doc THEN doc["clubs"] ELSE "[]")
        ELSE PyDict(doc)

\* the operation ends in one of two ways: it returns what the JSON body of a response
\* with a status among `statuses` gives, or it raises an error of the API kind
BodyOrAPIError(statuses) ==
    \/ /\ Returned(apiCall.out)
       /\ apiCall.x.kind = "response"
       /\ apiCall.x.status \in statuses
       /\ apiCall.x.text \in JsonTexts
       /\ apiCall.out.value = ReturnedBody(apiCall.op, apiCall.x)
    \/ /\ Raised(apiCall.out)
       /\ isinstance(apiCall.out.exc, "APIError")

----------------------------------------------------------------------------
(* Properties of the commands, over the runs of Spec *)

\* what an invocation sent to the user after its defer, and every reply it sent
Followups(r) == SelectSeq(r.events, LAMBDA e : e.t = "followup")
Replies(r) == SelectSeq(r.events, LAMBDA e : e.t \in {"followup", "send_message"})

\* its calls of the named operation, and the HTTP requests it put on the wire
Calls(r, name) == SelectSeq(r.events, LAMBDA e : e.t = "call" /\ e.kind = name)
Https(r) == SelectSeq(r.events, LAMBDA e : e.t = "http")

\* the invocation was made in a guild and has got past its club lookup
PastLookup(r) == r.guild_id # 0 /\ r.pc \notin {"idle", "deferred", "http"}

\* the backend holds no club bound to the channel
NoClubBound(channel_id) ==
    \A c \in DOMAIN backend : ~(backend[c].exists /\ backend[c].channel = str(channel_id))

\* the lookup was answered by the backend itself, not by a fault
Truthful(r) == r.x # NoExchange /\ r.x \notin Faults

\* C4 as stated: after deferring, every session command calls find_club_in_channel
\* exactly once, with the channel id and the guild id as strings.
C4_Original ==
    \A i \in Slots :
        (inv[i].cmd \in SessionCommands /\ PastLookup(inv[i])) =>
            /\ inv[i].events[1] = Defer
            /\ Calls(inv[i], "find_club_in_channel") =
                    <<CallEvent("find_club_in_channel",
                                <<str(inv[i].channel_id), str(inv[i].guild_id)>>)>>

\* C5 as stated: a session command invoked in a channel no club is bound to ends with a
\* ResourceNotFoundError leaving the command.
C5_Original ==
    \A i \in Slots :
        (/\ inv[i].cmd \in SessionCommands
         /\ inv[i].pc = "done"
         /\ inv[i].guild_id # 0
         /\ Truthful(inv[i])
         /\ NoClubBound(inv[i].channel_id)) =>
            /\ inv[i].result = "raised"
            /\ inv[i].exc.cls = "ResourceNotFoundError"

\* C6: an ask invoked in a channel no club is bound to ends, after its defer, with a
\* ResourceNotFoundError leaving the command and with no reply sent; and whatever
\* leaves an ask command is a ResourceNotFoundError for which no reply was sent.
C6_AskNotFoundPropagates ==
    \A i \in Slots :
        (inv[i].cmd = "ask" /\ inv[i].pc = "done" /\ inv[i].guild_id # 0) =>
            /\ (Truthful(inv[i]) /\ NoClubBound(inv[i].channel_id)) =>
                    /\ inv[i].result = "raised"
                    /\ inv[i].exc = ResourceNotFoundError(
                            <<"No book club found in channel ", str(inv[i].channel_id)>>)
            /\ inv[i].result = "raised" =>
                    /\ inv[i].exc.cls = "ResourceNotFoundError"
                    /\ inv[i].events[1] = Defer
                    /\ Replies(inv[i]) = << >>

C6_Witness ==
    \E i \in Slots :
        /\ inv[i].cmd = "ask" /\ inv[i].pc = "done"
        /\ Truthful(inv[i]) /\ NoClubBound(inv[i].channel_id)
        /\ inv[i].result = "raised"

\* the club lookup of the ask raised (never a ResourceNotFoundError, which
\* find_club_in_channel turns into None)
AskLookupRaised(r) ==
    r.x # NoExchange /\ Raised(find_club_in_channel(str(r.channel_id), str(r.guild_id), r.x).out)

\* the lookup returned a club whose active session carries no book
MalformedSession(r) ==
    r.x.kind = "response" /\ r.x.status = 200
    /\ \E c \in ClubIds, ch \in ChannelIds : r.x.text = ClubText(c, ch, "nobook")

TutoringFailed(r) == r.eng = "failed"

\* C7: an ask whose lookup raised, whose session payload is malformed or whose tutoring
\* service failed ends by returning, having sent exactly one follow-up, the generic
\* error embed.
C7_AskOtherFailuresCaught ==
    \A i \in Slots :
        (/\ inv[i].cmd = "ask" /\ inv[i].pc = "done" /\ inv[i].guild_id # 0
         /\ (AskLookupRaised(inv[i]) \/ MalformedSession(inv[i]) \/ TutoringFailed(inv[i]))) =>
            /\ inv[i].result = "returned"
            /\ Followups(inv[i]) = <<ErrorEmbed>>

C7_Witness ==
    \E i \in Slots :
        /\ inv[i].cmd = "ask" /\ inv[i].pc = "done"
        /\ TutoringFailed(inv[i])
        /\ inv[i].result = "returned"
        /\ Followups(inv[i]) = <<ErrorEmbed>>

\* C8 as stated: while an invocation waits for a downstream call (backend, completion
\* or tutoring), the reminder task can still run on the event loop.
C8_Original == \A i \in Slots : Awaiting(inv[i]) => ENABLED ReminderFire

\* the ask of invocation i is inside engine.ask
InFlight(i) == inv[i].cmd = "ask" /\ inv[i].pc = "engine" /\ inv[i].eng = "running"

\* the follow-up that carries the tutoring service's answer
AnswerEmbed(r) == FollowupEmbed(<<"About '", r.book_title, "'">>, <<r.answer>>, "info", << >>)

\* C9: an ask in flight does not hold the event loop thread, so that the reminder task
\* can run unless another invocation's backend call holds the thread; the command is
\* resumed only once engine.ask has ended, and with exactly the answer it returned.
C9_AskOffLoop ==
    \A i \in Slots :
        /\ InFlight(i) =>
            /\ loop # i
            /\ (\A j \in Slots \ {i} : inv[j].pc # "http") => ENABLED ReminderFire
        /\ (inv[i].cmd = "ask" /\ inv[i].pc = "done"
                /\ Calls(inv[i], "brains_service.ask") # << >>) =>
            /\ inv[i].eng \in {"ok", "failed"}
            /\ inv[i].eng = "ok" => Followups(inv[i]) = <<AnswerEmbed(inv[i])>>

\* the reminder task ran to completion while the ask was in flight
C9_Witness ==
    \E i \in Slots : InFlight(i) /\ i \in reminder.during /\ reminder.fired

\* the lookup found a club that has no active session
FoundIdleClub(r) ==
    r.x.kind = "response" /\ r.x.status = 200
    /\ \E c \in ClubIds \ {""}, ch \in ChannelIds : r.x.text = ClubText(c, ch, "idle")

\* the name of the club the lookup returned
FoundClubName(r) == (CHOOSE p \in JsonDocs : p[1] = r.x.text)[2]["name"]

\* C11 as stated: a session command or an ask that finds a club without an active
\* session returns after exactly one reply, a text that names the club, and calls
\* neither the completion nor the tutoring service.
C11_Original ==
    \A i \in Slots :
        (inv[i].cmd \in Commands /\ inv[i].pc = "done" /\ FoundIdleClub(inv[i])) =>
            /\ inv[i].result = "returned"
            /\ Len(Replies(inv[i])) = 1
            /\ Replies(inv[i])[1].kind = "text"
            /\ FoundClubName(inv[i]) \in Range(Replies(inv[i])[1].text)
            /\ Calls(inv[i], "brains_service.ask") = << >>
            /\ Calls(inv[i], "engine.ask") = << >>
            /\ Calls(inv[i], "openai_service.get_response") = << >>

\* C12: a command invoked without a guild id ends by returning, and all it did is send
\* one ephemeral DM notice as its initial response: no defer, no call of the client or
\* of a service, no follow-up.
C12_DmNoticeOnly ==
    \A i \in Slots :
        (inv[i].pc # "idle" /\ inv[i].guild_id = 0) =>
            /\ inv[i].pc = "done"
            /\ inv[i].result = "returned"
            /\ Len(inv[i].events) = 1
            /\ inv[i].events[1].t = "send_message"
            /\ inv[i].events[1].text = <<DmNotice>>
            /\ inv[i].events[1].flags = {"ephemeral"}

C12_Witness ==
    \E i \in Slots :
        /\ inv[i].cmd = "book_summary" /\ inv[i].guild_id = 0 /\ inv[i].pc = "done"
        /\ Replies(inv[i]) = inv[i].events

\* C17: a firing of the reminder task posts a message if and only if the Pacific hour
\* is 17, the draw is below 0.40 (40 hundredths) and the default channel resolves; it
\* never posts more than one.
C17_ReminderIff ==
    reminder.fired =>
        /\ reminder.sent \in {0, 1}
        /\ reminder.sent = 1 <=>
                (reminder.hour = 17 /\ reminder.draw < 40 /\ reminder.channel)

C17_Witness ==
    /\ reminder.fired
    /\ reminder.hour = 17 /\ reminder.draw = 39 /\ reminder.channel
    /\ reminder.sent = 1

\* the document the lookup returned
FoundDoc(r) == (CHOOSE p \in JsonDocs : p[1] = r.x.text)[2]

\* the lookup found a club with an active session
FoundActiveClub(r) ==
    /\ r.x.kind = "response" /\ r.x.status = 200 /\ r.x.text \in JsonTexts
    /\ IsTruthy(FoundDoc(r), "active_session")

\* the place of the first event of the kind in the invocation's events (0: none)
FirstEvent(r, t, kind) ==
    IF \E k \in DOMAIN r.events : r.events[k].t = t /\ r.events[k].kind = kind
    THEN CHOOSE k \in DOMAIN r.events :
            /\ r.events[k].t = t /\ r.events[k].kind = kind
            /\ \A j \in 1 .. k - 1 : ~(r.events[j].t = t /\ r.events[j].kind = kind)
    ELSE 0

\* C20: the ask command calls the tutoring service only after its lookup has found a
\* club with an active session, with the user's question and that session's book
\* title; when the service answers, the command returns after exactly one follow-up,
\* an embed whose body is the answer and whose title carries the book title.
C20_AskAnswers ==
    \A i \in Slots :
        inv[i].cmd = "ask" =>
            /\ Calls(inv[i], "brains_service.ask") # << >> =>
                /\ FoundActiveClub(inv[i])
                /\ Calls(inv[i], "brains_service.ask")[1].text =
                        <<inv[i].question, FoundDoc(inv[i])["active_session.book.title"]>>
                /\ FirstEvent(inv[i], "call", "find_club_in_channel")
                        < FirstEvent(inv[i], "call", "brains_service.ask")
                /\ FirstEvent(inv[i], "http", "GET")
                        < FirstEvent(inv[i], "call", "brains_service.ask")
            /\ (inv[i].pc = "done" /\ inv[i].eng = "ok") =>
                /\ inv[i].result = "returned"
                /\ Len(Followups(inv[i])) = 1
                /\ Followups(inv[i])[1].kind = "embed"
                /\ Followups(inv[i])[1].body = <<inv[i].answer>>
                /\ FoundDoc(inv[i])["active_session.book.title"]
                        \in Range(Followups(inv[i])[1].text)

C20_Witness ==
    \E i \in Slots :
        /\ inv[i].cmd = "ask" /\ inv[i].pc = "done" /\ inv[i].eng = "ok"
        /\ inv[i].answer = "What do you think?"
        /\ Followups(inv[i])[1].body = <<"What do you think?">>
        /\ Followups(inv[i])[1].text = <<"About '", "Emma", "'">>

\* the follow-up is the no-active-session notice, the answer embed or the error embed
AskFollowup(e) ==
    \/ e.kind = "text" /\ e.text[1] = "There is no active reading session for **"
    \/ e.kind = "embed" /\ e.text[1] = "About '"
    \/ e = ErrorEmbed

\* C28: an invocation of ask in a community ends in exactly one of two ways: a
\* NotFound error leaves the command and no follow-up was sent, or the command
\* returns having sent exactly one follow-up, which is the no-active-session notice,
\* the answer embed or the generic error embed; and at no moment has it sent two.
C28_AskEndsOneWay ==
    \A i \in Slots :
        (inv[i].cmd = "ask" /\ inv[i].guild_id # 0) =>
            /\ Len(Followups(inv[i])) <= 1
            /\ inv[i].pc = "done" =>
                \/ /\ inv[i].result = "raised"
                   /\ inv[i].exc.cls = "ResourceNotFoundError"
                   /\ Followups(inv[i]) = << >>
                \/ /\ inv[i].result = "returned"
                   /\ Len(Followups(inv[i])) = 1
                   /\ AskFollowup(Followups(inv[i])[1])
                   /\ inv[i].events[Len(inv[i].events)].t = "followup"

C28_Witness ==
    \E i \in Slots :
        /\ inv[i].cmd = "ask" /\ inv[i].guild_id # 0 /\ inv[i].pc = "done"
        /\ inv[i].result = "returned"
        /\ inv[i].eng = "failed"
        /\ Followups(inv[i]) = <<ErrorEmbed>>

\* what the club lookup of a session command ended with
SessionLookupOut(r) == get_club(DEFAULT_CLUB_ID, str(r.guild_id), r.x).out

\* C29: a NotFound, Validation, Authentication or generic API error raised by the club
\* lookup of book, duedate, session, discussions or book_summary leaves the command
\* as it is, after the defer and with no follow-up sent by the command.
C29_SessionErrorsPropagate ==
    \A i \in Slots :
        (inv[i].cmd \in SessionCommands /\ inv[i].pc = "done" /\ inv[i].guild_id # 0
            /\ Raised(SessionLookupOut(inv[i]))) =>
                /\ inv[i].result = "raised"
                /\ inv[i].exc = SessionLookupOut(inv[i]).exc
                /\ inv[i].exc.cls \in ApiErrorClasses
                /\ inv[i].events[1] = Defer
                /\ Replies(inv[i]) = << >>

C29_Witness ==
    \E i \in Slots :
        /\ inv[i].cmd = "book_summary" /\ inv[i].pc = "done" /\ inv[i].guild_id # 0
        /\ inv[i].x = Response(400, "{error}")
        /\ inv[i].result = "raised"
        /\ inv[i].exc.cls = "ValidationError"
        /\ inv[i].events[1] = Defer
        /\ Followups(inv[i]) = << >>

\* C30: the helper _get_active_session is entered by the five session commands only
\* with a guild id, so its own DM check never fires and it goes on to the club lookup;
\* the DM notice is never a follow-up: wherever it was sent, it is the ephemeral
\* initial response and the only thing the command did.
C30_HelperDmCheckUnreached ==
    \A i \in Slots :
        inv[i].cmd \in SessionCommands =>
            /\ inv[i].pc = "deferred" =>
                /\ inv[i].guild_id # 0
                /\ BeginSessionLookup(inv[i]).pc = "http"
                /\ Followups(BeginSessionLookup(inv[i])) = << >>
            /\ \A k \in DOMAIN inv[i].events :
                    inv[i].events[k].text = <<DmNotice>> =>
                        /\ inv[i].events[k] = SendMessage(<<DmNotice>>)
                        /\ inv[i].events = <<SendMessage(<<DmNotice>>)>>
                        /\ inv[i].guild_id = 0

C30_Witness ==
    \E i \in Slots :
        /\ inv[i].cmd = "book" /\ inv[i].guild_id = 0 /\ inv[i].pc = "done"
        /\ inv[i].events = <<SendMessage(<<DmNotice>>)>>
        /\ "ephemeral" \in inv[i].events[1].flags
        /\ Followups(inv[i]) = << >>

\* the lookup found a club whose active session carries its book, as every session
\* of the data model does
FoundSessionWithBook(r) ==
    FoundActiveClub(r) /\ "active_session.book" \in DOMAIN FoundDoc(r)

\* C24: a session command invoked in a community defers before its club lookup and
\* before any follow-up; every invocation that returns has the events defer, club
\* lookup (the call and its request), then exactly one follow-up as its last event;
\* and with an active session the command does return so.
C24_DeferLookupFollowup ==
    \A i \in Slots :
        (inv[i].cmd \in SessionCommands /\ inv[i].guild_id # 0) =>
            LET e == inv[i].events IN
            /\ e # << >> =>
                /\ e[1] = Defer
                /\ \A k \in 2 .. Len(e) : e[k].t # "defer"
            /\ (inv[i].pc = "done" /\ inv[i].result = "returned") =>
                /\ Len(e) \in {4, 5}
                /\ e[2] = CallEvent("get_club", <<DEFAULT_CLUB_ID, str(inv[i].guild_id)>>)
                /\ e[3].t = "http"
                /\ Len(e) = 5 =>
                    (inv[i].cmd = "book_summary" /\ e[4].t = "call"
                        /\ e[4].kind = "openai_service.get_response")
                /\ e[Len(e)].t = "followup"
                /\ Len(Followups(inv[i])) = 1
            /\ (inv[i].pc = "done" /\ FoundSessionWithBook(inv[i])) =>
                inv[i].result = "returned"

C24_Witness ==
    \E i \in Slots :
        /\ inv[i].cmd = "duedate" /\ inv[i].guild_id # 0
        /\ inv[i].pc = "done" /\ inv[i].result = "returned"
        /\ FoundSessionWithBook(inv[i])
        /\ Len(inv[i].events) = 4
        /\ inv[i].events[1] = Defer
        /\ inv[i].events[4].kind = "embed"

----------------------------------------------------------------------------
(* Properties of the whole program, over the runs of SpecAll *)

\* C10: every client operation issues exactly one HTTP request, whether it returns or
\* raises; a command puts one request on the wire for its club lookup and never a
\* second; the ask command calls the club lookup, the tutoring service and the engine
\* at most once each.
C10_ExactlyOnce ==
    /\ apiCall.op # "none" => Len(apiCall.reqs) = 1
    /\ \A i \in Slots :
        /\ Len(Https(inv[i])) <= 1
        /\ PastLookup(inv[i]) => Len(Https(inv[i])) = 1
        /\ Len(Calls(inv[i], "find_club_in_channel")) <= 1
        /\ Len(Calls(inv[i], "get_club")) <= 1
        /\ Len(Calls(inv[i], "brains_service.ask")) <= 1
        /\ Len(Calls(inv[i], "engine.ask")) <= 1
        /\ Len(Calls(inv[i], "openai_service.get_response")) <= 1
        /\ (inv[i].cmd = "ask" /\ PastLookup(inv[i])) =>
                Len(Calls(inv[i], "find_club_in_channel")) = 1

\* an ask whose lookup failed has ended with one request sent and one lookup made
C10_Witness ==
    \E i \in Slots :
        /\ inv[i].cmd = "ask" /\ inv[i].pc = "done"
        /\ AskLookupRaised(inv[i])
        /\ Len(Https(inv[i])) = 1
        /\ Len(Calls(inv[i], "find_club_in_channel")) = 1

----------------------------------------------------------------------------
(* Properties of the discussions rendering, over SpecUnit and SpecAll *)

\* the place of a date string in ascending order
DateIndex(d) == CHOOSE k \in DOMAIN Dates : Dates[k] = d

\* the parts of a rendered field
FieldNumber(f) == f[2]
FieldTitle(f) == f[4]
FieldDate(f) == f[6]
FieldLocation(f) == f[8]

\* fields numbered 1..n in their order, their dates ascending
NumberedByDate(fields) ==
    /\ \A j \in DOMAIN fields :
            /\ fields[j][1] = "Discussion "
            /\ FieldNumber(fields[j]) = str(j)
            /\ fields[j][3] = ": "
    /\ \A j, k \in DOMAIN fields :
            j < k => DateIndex(FieldDate(fields[j])) <= DateIndex(FieldDate(fields[k]))

\* C13: the discussions command renders one field per discussion, in ascending order of
\* the date strings, titled "Discussion N: <title>" with N = 1..n in that order,
\* whatever the order of the list it was given.
C13_DiscussionsSorted ==
    /\ unit.op = "discussions" =>
        /\ Len(unit.out) = Len(unit.arg)
        /\ NumberedByDate(unit.out)
        /\ \A k \in DOMAIN unit.arg : \E j \in DOMAIN unit.out :
                /\ FieldTitle(unit.out[j]) = unit.arg[k]["title"]
                /\ FieldDate(unit.out[j]) = unit.arg[k]["date"]
    /\ \A i \in Slots :
        (inv[i].cmd = "discussions" /\ inv[i].pc = "done"
            /\ Followups(inv[i]) # << >> /\ Followups(inv[i])[1].kind = "embed") =>
            LET doc == (CHOOSE p \in JsonDocs : p[1] = inv[i].x.text)[2]
                fields == Followups(inv[i])[1].fields
            IN  /\ Len(Followups(inv[i])) = 1
                /\ Len(fields) = Len(DiscussionList(doc["active_session.discussions"]))
                /\ NumberedByDate(fields)

\* the list dated 04-20, 04-15 is rendered 04-15 first
C13_Witness ==
    /\ unit.op = "discussions"
    /\ Len(unit.arg) = 2
    /\ unit.arg[1]["date"] = "2025-04-20" /\ unit.arg[2]["date"] = "2025-04-15"
    /\ FieldDate(unit.out[1]) = "2025-04-15" /\ FieldTitle(unit.out[1]) = "Talk 2"
    /\ FieldDate(unit.out[2]) = "2025-04-20" /\ FieldTitle(unit.out[2]) = "Talk 1"

\* C14 as stated: a discussion whose location is missing or null is rendered with the
\* location "TBD", any other with its location.
C14_Original ==
    unit.op = "discussions" =>
        \A j \in DOMAIN unit.out :
            LET d == CHOOSE d \in Range(unit.arg) : d["title"] = FieldTitle(unit.out[j])
            IN  IF "location" \notin DOMAIN d \/ d["location"] = "null"
                THEN FieldLocation(unit.out[j]) = "TBD"
                ELSE FieldLocation(unit.out[j]) = d["location"]

----------------------------------------------------------------------------
(* Properties of the tutoring service *)

\* a credential that is None or empty
Absent(v) == v = "null" \/ v = ""

\* C18: the construction of a BrainsService raises ValueError and creates no engine
\* whenever one of the three credentials is None or empty, and otherwise returns the
\* service after creating one engine from the three credentials.
C18_ConstructionNeedsAll ==
    unit.op = "BrainsService" =>
        IF \E k \in 1 .. 3 : Absent(unit.arg[k])
        THEN /\ Raised(unit.out.out)
             /\ unit.out.out.exc.cls = "ValueError"
             /\ unit.out.engines = << >>
        ELSE /\ Returned(unit.out.out)
             /\ unit.out.engines = <<unit.arg>>

C18_Witness ==
    /\ unit.op = "BrainsService"
    /\ unit.arg = <<"https://brains.supabase.co", "key", "">>
    /\ Raised(unit.out.out)
    /\ unit.out.engines = << >>

\* C19: BrainsService.ask hands the engine (question, scope, book title) in that order,
\* the scope being "humanitarian_ai_experiment" when the caller gave None or an empty
\* one; it ends as the engine call ended, an error of the engine re-raised as it is;
\* every engine call of the ask command carries the fixed scope.
C19_EngineCall ==
    /\ unit.op = "BrainsService.ask" =>
        /\ unit.out.call.kind = "engine.ask"
        /\ unit.out.call.text =
                <<unit.arg.question,
                  IF unit.arg.scope \in {"null", ""}
                  THEN "humanitarian_ai_experiment" ELSE unit.arg.scope,
                  unit.arg.book_title>>
        /\ unit.out.out = unit.arg.response
    /\ \A i \in Slots :
        \A k \in DOMAIN Calls(inv[i], "engine.ask") :
            Calls(inv[i], "engine.ask")[k].text =
                <<inv[i].question, "humanitarian_ai_experiment", inv[i].book_title>>

C19_Witness ==
    /\ unit.op = "BrainsService.ask"
    /\ unit.arg.scope = "null"
    /\ unit.out.call.text[2] = "humanitarian_ai_experiment"
    /\ Raised(unit.arg.response)
    /\ unit.out.out = unit.arg.response

----------------------------------------------------------------------------
(* Properties of the message and member handlers, over the calls of SpecUnit *)

\* the effects of the kind among the effects of the last handler call
EffectsOf(effects, t) == SelectSeq(effects, LAMBDA e : e.t = t)

\* C22: on every incoming message the handler hands the message to the command
\* pipeline exactly once if and only if its author is not the bot, whichever of the
\* mention, "together" and ambient-reaction branches fired or none; a message of the
\* bot itself causes no reply, no reaction and no dispatch.
C22_DispatchUnlessSelf ==
    unit.op = "on_message" =>
        LET message == unit.arg.message
            dispatched == EffectsOf(unit.out, "process_commands")
        IN  /\ Len(dispatched) <= 1
            /\ Len(dispatched) = 1 <=> message.author # "bot"
            /\ \A k \in DOMAIN dispatched : dispatched[k].arg = message
            /\ message.author = "bot" => unit.out = << >>
            /\ Len(EffectsOf(unit.out, "channel.send"))
                    + Len(EffectsOf(unit.out, "add_reaction")) <= 1

C22_Witness ==
    /\ unit.op = "on_message"
    /\ unit.arg.message.author = "NewUser"
    /\ unit.arg.message.content = <<"Let's", "read", "TOGETHER">>
    /\ unit.arg.message.mentions = {}
    /\ Len(unit.out) = 2
    /\ unit.out[1] = Effect("channel.send", <<"Reading is done best in community.">>)
    /\ unit.out[2] = Effect("process_commands", unit.arg.message)

\* C23: on every new-member event the handler saves a record to the membership store
\* exactly once, whether or not the default channel resolves, and returns without
\* raising; it posts the welcome embed if and only if the channel resolves.
C23_JoinAlwaysSaves ==
    unit.op = "on_member_join" =>
        /\ Len(EffectsOf(unit.out.effects, "db.save_club")) = 1
        /\ Returned(unit.out.out)
        /\ Len(EffectsOf(unit.out.effects, "channel.send")) =
                (IF unit.arg.channel # "None" THEN 1 ELSE 0)
        /\ \A k \in DOMAIN unit.out.effects :
                unit.out.effects[k].t = "channel.send" =>
                    /\ unit.out.effects[k].arg[1] = "New Member!"
                    /\ unit.arg.member \in Range(unit.out.effects[k].arg)

C23_Witness ==
    /\ unit.op = "on_member_join"
    /\ unit.arg.channel = "None"
    /\ unit.out.effects = <<Effect("db.save_club", <<unit.arg.member>>)>>
    /\ Returned(unit.out.out)

----------------------------------------------------------------------------
(* Properties of the shared objects, over the runs of SpecAll *)

\* C25: the backend client's base URL, functions URL and header set and the tutoring
\* service's default scope have, in every reachable state, the values their
\* constructors gave them: no client operation, command, handler or reminder firing
\* changes them, in any order or interleaving.
C25_SharedUnchanged ==
    /\ shared.api.base_url = <<"https://project.supabase.co">>
    /\ shared.api.functions_url = <<"https://project.supabase.co", "/functions/v1">>
    /\ DOMAIN shared.api.headers = {"Content-Type", "Authorization"}
    /\ shared.api.headers["Content-Type"] = <<"application/json">>
    /\ shared.api.headers["Authorization"] = <<"Bearer ", "key">>
    /\ shared.brains["default_scope"] = "humanitarian_ai_experiment"

C25_Witness ==
    /\ \E i \in Slots :
        /\ inv[i].cmd = "ask" /\ inv[i].pc = "done" /\ inv[i].eng = "ok"
        /\ Calls(inv[i], "engine.ask") # << >>
    /\ reminder.fired /\ reminder.sent = 1
    /\ shared = Startup

====
